---- MODULE Spec2Model ----
(***************************************************************************)
(* WorkerManage: the conversation -> task registry of the main process.    *)
(* taskList is the module-level array; buildConversation, getTaskById,     *)
(* getTaskByIdRollbackBuild, kill, clear, addTask and listTasks are its    *)
(* exported operations.  getTaskByIdRollbackBuild is the only async one:   *)
(* it runs synchronously up to `await ProcessChat.get(...)` and resumes    *)
(* later, so other operations may run in between.                          *)
(*                                                                         *)
(* ToolRegistry: the builtin and MCP descriptor tables and the resolution  *)
(* of agent events to descriptors.  RegistrySpec runs its operations from  *)
(* the constructed registry, SelectionSpec runs them from mapping tables   *)
(* with two candidates for one event type, and AdaptSpec applies           *)
(* adaptMcpTool to a range of MCP tool announcements and looks up the      *)
(* localized labels of the descriptors it returns.                         *)
(*                                                                         *)
(* LifecycleSpec runs the registry operations that construct and terminate *)
(* tasks together with the tasks' own steps.  InstallSpec runs one call of *)
(* executeInstall with the events of its child process and its timer.      *)
(***************************************************************************)
EXTENDS Integers, Sequences, FiniteSets, TLC

VARIABLES
    taskList,   \* the registry: a sequence of [id, task]
    tasks,      \* every task object ever constructed: what it was built from, and its state
    pending,    \* the getTaskByIdRollbackBuild calls suspended at the await: how many, by id
                \* and by what the database had answered ("not found", "unavailable")
    last,       \* what the most recent operation did and returned
    steps,      \* the number of operations (and resumptions) run so far
    made,       \* id -> the tasks constructed or registered for id since the entry of id was
                \* last removed (kill, clear) or replaced (addTask)
    gocTask,    \* id -> the task the latest constructing getOrCreate for id constructed,
                \* none once kill(id) has been invoked
    tools,      \* ToolRegistry.tools: the builtin table, in insertion order
    mcpTools,   \* ToolRegistry.mcpTools: the MCP table, in insertion order
    eventTypeMapping, \* ToolRegistry.eventTypeMapping: event type -> candidate ids
    platform,   \* process.platform
    rlast,      \* what the most recent registry operation was given and returned
    adapted,    \* an McpToolInfo and, once adaptMcpTool has run on it, its descriptor
    mcpOrder,   \* the ids registerMcpTool was called for, in the order of their first call
    install     \* one executeInstall call: its child process, its timer, the progress
                \* events it emitted and the values it resolved with

workerVars == <<taskList, tasks, pending, last, steps, made, gocTask>>
registryVars == <<tools, mcpTools, eventTypeMapping, platform, rlast, adapted, mcpOrder>>
vars == <<taskList, tasks, pending, last, steps, made, gocTask,
          tools, mcpTools, eventTypeMapping, platform, rlast, adapted, mcpOrder, install>>

\* ---------------------------------------------------------------- bounds
MaxTasks == 2
MaxPending == 2
MaxSteps == 4
MaxOutput == 2

\* ---------------------------------------------------------------- values
Ids == {"c1", "c2"}
Tasks == 1..MaxTasks
Null == 0
SupportedTypes == {"acp", "codex"}
Types == SupportedTypes \cup {"other"}

\* A conversation record, as far as the registry reads it: its id and its type.
NoConv == [id |-> "", type |-> ""]
Conv(id, type) == [id |-> id, type |-> type]

NoTask == [id |-> "", type |-> "", state |-> "none"]

\* db.getConversation(id): IQueryResult with success and data; a miss and an
\* unavailable database both come back with success = FALSE.
DbErrors == {"not found", "unavailable"}
DbAnswers == DbErrors \cup {"hit"}
PrimaryResults(id) ==
    { [success |-> TRUE, data |-> Conv(id, t), error |-> ""] : t \in {"acp", "other"} }
        \cup { [success |-> FALSE, data |-> NoConv, error |-> e] : e \in DbErrors }

\* 'chat.history': the entry found for id, or none.
SecondaryResults(id) ==
    { Conv(id, t) : t \in {"codex", "other"} } \cup {NoConv}

\* ---------------------------------------------------------------- helpers
TrackedIds(list) == { list[i].id : i \in 1..Len(list) }

\* taskList.findIndex((item) => item.id === id), 0 for -1
FindIndex(list, id) ==
    IF \E i \in 1..Len(list) : list[i].id = id
    THEN CHOOSE i \in 1..Len(list) :
            /\ list[i].id = id
            /\ \A j \in 1..(i - 1) : list[j].id # id
    ELSE 0

\* taskList.find((item) => item.id === id)?.task
Find(list, id) == IF FindIndex(list, id) = 0 THEN Null ELSE list[FindIndex(list, id)].task

\* getTaskById that returns the task of the first entry, whatever its id.
getTaskByIdAnyEntry(id) == IF taskList = <<>> THEN Null ELSE taskList[1].task

getTaskById(id) == Find(taskList, id)

\* taskList.splice(index, 1)
Splice(list, index) == [ i \in 1..(Len(list) - 1) |-> IF i < index THEN list[i] ELSE list[i + 1] ]

Created == { t \in Tasks : tasks[t].state # "none" }
NextTask == Cardinality(Created) + 1

\* The suspended calls, all ids together.
Suspended ==
    Cardinality({ c \in Ids \X DbAnswers \X (1..MaxPending) : c[3] <= pending[c[1]][c[2]] })

NoLast == [op |-> "init", id |-> "", type |-> "", ret |-> Null, err |-> "", tracked |-> FALSE,
           changed |-> FALSE, built |-> {}, signalled |-> {}, db |-> "", rec |-> NoConv,
           queried |-> <<>>, list |-> <<>>]

\* ---------------------------------------------------------------- the code
\* What an operation leaves behind: the value it returns, the registry, the task
\* objects, and the tasks it constructed.
Outcome(ret, list, ts, new) == [ret |-> ret, list |-> list, tasks |-> ts, built |-> new]

\* new AcpAgentManager({...conversation.extra, conversation_id: conversation.id}),
\* new CodexAgentManager(...): the task object number t, built from conv.
Construct(ts, t, conv) ==
    [u \in Tasks |-> IF u = t
                     THEN [id |-> conv.id, type |-> conv.type, state |-> "idle"]
                     ELSE ts[u]]

\* The states of a task: Idle -> Starting -> Running -> {Exited | Killed}; a task
\* object that does not exist yet is in "none".
NonTerminal == {"idle", "starting", "running"}
Terminal == {"exited", "killed"}

\* kill() that terminates the task whatever its state.
TaskKillFromAnyState(ts, t, throws) ==
    IF throws THEN ts ELSE [ts EXCEPT ![t].state = "killed"]

\* task.kill(): the task terminates, or the signalling throws and the task stays as it was.
TaskKill(ts, t, throws) ==
    IF throws \/ ts[t].state \in Terminal THEN ts ELSE [ts EXCEPT ![t].state = "killed"]

\* buildConversation without the look-up of lines 25-29: it constructs whatever is tracked.
buildConversationNoRecheck(conv) ==
    IF conv.type \in {"acp", "codex"}
    THEN Outcome(NextTask,
                 Append(taskList, [id |-> conv.id, task |-> NextTask]),
                 Construct(tasks, NextTask, conv),
                 {NextTask})
    ELSE Outcome(Null, taskList, tasks, {})

\* buildConversation without the taskList.push of lines 34 and 39.
buildConversationNoPush(conv) ==
    LET task == getTaskById(conv.id) IN
    IF task # Null
    THEN Outcome(task, taskList, tasks, {})
    ELSE IF conv.type \in {"acp", "codex"}
         THEN Outcome(NextTask, taskList, Construct(tasks, NextTask, conv), {NextTask})
         ELSE Outcome(Null, taskList, tasks, {})

\* buildConversation whose default branch constructs a task like the acp branch.
buildConversationAnyType(conv) ==
    LET task == getTaskById(conv.id) IN
    IF task # Null
    THEN Outcome(task, taskList, tasks, {})
    ELSE Outcome(NextTask,
                 Append(taskList, [id |-> conv.id, task |-> NextTask]),
                 Construct(tasks, NextTask, conv),
                 {NextTask})

buildConversation(conv) ==
    LET task == getTaskById(conv.id) IN
    IF task # Null
    THEN Outcome(task, taskList, tasks, {})
    ELSE IF conv.type \in {"acp", "codex"}
         THEN Outcome(NextTask,
                      Append(taskList, [id |-> conv.id, task |-> NextTask]),
                      Construct(tasks, NextTask, conv),
                      {NextTask})
         ELSE Outcome(Null, taskList, tasks, {})

\* if (dbResult.success && dbResult.data)
PrimaryHit(dbResult) == dbResult.success /\ dbResult.data # NoConv

\* getTaskByIdRollbackBuild without the look-up of lines 49-50: the database is asked
\* whatever is tracked.
RollbackBuildSyncNoMemory(id, dbResult) ==
    IF PrimaryHit(dbResult)
    THEN [next |-> "return", queried |-> <<"primary">>, err |-> "",
          out |-> buildConversation(dbResult.data)]
    ELSE [next |-> "await", queried |-> <<"primary">>, err |-> "",
          out |-> Outcome(Null, taskList, tasks, {})]

\* getTaskByIdRollbackBuild rejecting when the database reports an error other than a miss.
RollbackBuildSyncFailFast(id, dbResult) ==
    LET task == Find(taskList, id) IN
    IF task # Null
    THEN [next |-> "return", queried |-> <<>>, err |-> "",
          out |-> Outcome(task, taskList, tasks, {})]
    ELSE IF PrimaryHit(dbResult)
         THEN [next |-> "return", queried |-> <<"primary">>, err |-> "",
               out |-> buildConversation(dbResult.data)]
         ELSE IF dbResult.error = "unavailable"
              THEN [next |-> "return", queried |-> <<"primary">>, err |-> "unavailable",
                    out |-> Outcome(Null, taskList, tasks, {})]
              ELSE [next |-> "await", queried |-> <<"primary">>, err |-> "",
                    out |-> Outcome(Null, taskList, tasks, {})]

\* getTaskByIdRollbackBuild up to its await, dbResult being the database's answer if
\* it is asked: "return" with an outcome, or "await" (suspended on ProcessChat.get)
\* with nothing changed.  It rejects nothing before the await.
RollbackBuildSync(id, dbResult) ==
    LET task == Find(taskList, id) IN
    IF task # Null
    THEN [next |-> "return", queried |-> <<>>, err |-> "",
          out |-> Outcome(task, taskList, tasks, {})]
    ELSE IF PrimaryHit(dbResult)
         THEN [next |-> "return", queried |-> <<"primary">>, err |-> "",
               out |-> buildConversation(dbResult.data)]
         ELSE [next |-> "await", queried |-> <<"primary">>, err |-> "",
               out |-> Outcome(Null, taskList, tasks, {})]

\* getTaskByIdRollbackBuild resolving with nothing, instead of rejecting, on a miss.
RollbackBuildResumeResolvesNull(id, conversation) ==
    IF conversation # NoConv
    THEN [err |-> "", out |-> buildConversation(conversation)]
    ELSE [err |-> "", out |-> Outcome(Null, taskList, tasks, {})]

\* getTaskByIdRollbackBuild after its await, conversation being the entry of the file
\* storage's list for id (NoConv for none): it is built, or the promise is rejected.
RollbackBuildResume(id, conversation) ==
    IF conversation # NoConv
    THEN [err |-> "", out |-> buildConversation(conversation)]
    ELSE [err |-> "Conversation not found", out |-> Outcome(Null, taskList, tasks, {})]

\* kill(id) without the early return on index === -1: splice(-1, 1) drops the last entry.
killCodeNoEarlyReturn(id, throws) ==
    LET index == FindIndex(taskList, id) IN
    IF index = 0
    THEN [list |-> SubSeq(taskList, 1, Len(taskList) - 1), tasks |-> tasks,
          signalled |-> {}, err |-> ""]
    ELSE LET t == taskList[index].task IN
         IF throws
         THEN [list |-> taskList, tasks |-> TaskKill(tasks, t, TRUE),
               signalled |-> {t}, err |-> "kill failed"]
         ELSE [list |-> Splice(taskList, index), tasks |-> TaskKill(tasks, t, FALSE),
               signalled |-> {t}, err |-> ""]

\* kill that signals every tracked task and removes the entry of id.
killCodeSignalsAll(id, throws) ==
    LET index == FindIndex(taskList, id) IN
    IF index = 0
    THEN [list |-> taskList, tasks |-> tasks, signalled |-> {}, err |-> ""]
    ELSE LET all == { taskList[i].task : i \in 1..Len(taskList) } IN
         IF throws
         THEN [list |-> taskList, tasks |-> tasks, signalled |-> all, err |-> "kill failed"]
         ELSE [list |-> Splice(taskList, index),
               tasks |-> [t \in Tasks |-> IF t \in all THEN TaskKill(tasks, t, FALSE)[t]
                                          ELSE tasks[t]],
               signalled |-> all, err |-> ""]

\* kill(id); throws: whether task.kill() throws.
killCode(id, throws) ==
    LET index == FindIndex(taskList, id) IN
    IF index = 0
    THEN [list |-> taskList, tasks |-> tasks, signalled |-> {}, err |-> ""]
    ELSE LET t == taskList[index].task IN
         IF throws
         THEN [list |-> taskList, tasks |-> TaskKill(tasks, t, TRUE),
               signalled |-> {t}, err |-> "kill failed"]
         ELSE [list |-> Splice(taskList, index), tasks |-> TaskKill(tasks, t, FALSE),
               signalled |-> {t}, err |-> ""]

\* The task objects after kill() returned on each task of `done`.
KillAll(ts, done) ==
    [t \in Tasks |-> IF t \in done THEN TaskKill(ts, t, FALSE)[t] ELSE ts[t]]

\* clear(); k: the position in taskList of the first task whose kill() throws, 0 for none.
clearCode(k) ==
    LET n == Len(taskList) IN
    IF k = 0
    THEN [list |-> <<>>,
          tasks |-> KillAll(tasks, { taskList[i].task : i \in 1..n }),
          signalled |-> { taskList[i].task : i \in 1..n }, err |-> ""]
    ELSE [list |-> taskList,
          tasks |-> KillAll(tasks, { taskList[i].task : i \in 1..(k - 1) }),
          signalled |-> { taskList[i].task : i \in 1..k }, err |-> "kill failed"]

\* addTask that pushes an entry without looking for an existing one.
addTaskCodeAlwaysPush(id, task) == Append(taskList, [id |-> id, task |-> task])

\* addTask(id, task)
addTaskCode(id, task) ==
    LET index == FindIndex(taskList, id) IN
    IF index # 0
    THEN [taskList EXCEPT ![index].task = task]
    ELSE Append(taskList, [id |-> id, task |-> task])

\* listTasks()
listTasksCode == [ i \in 1..Len(taskList) |-> [id |-> taskList[i].id, type |-> tasks[taskList[i].task].type] ]

\* ================================================================ ToolRegistry
\* ---------------------------------------------------------------- strings
\* A string is the sequence of its characters, so that includes, endsWith,
\* toLowerCase and template concatenation are computed as the code computes them.
UpperCase == <<"A", "B", "C", "D", "E", "F", "G", "H", "I", "J", "K", "L", "M",
               "N", "O", "P", "Q", "R", "S", "T", "U", "V", "W", "X", "Y", "Z">>
LowerCase == <<"a", "b", "c", "d", "e", "f", "g", "h", "i", "j", "k", "l", "m",
               "n", "o", "p", "q", "r", "s", "t", "u", "v", "w", "x", "y", "z">>

\* String.prototype.toLowerCase
ToLowerCase(s) ==
    [ i \in 1..Len(s) |->
        IF \E k \in 1..Len(UpperCase) : UpperCase[k] = s[i]
        THEN LowerCase[CHOOSE k \in 1..Len(UpperCase) : UpperCase[k] = s[i]]
        ELSE s[i] ]

\* String.prototype.includes
Includes(s, sub) ==
    \E i \in 0..(Len(s) - Len(sub)) : SubSeq(s, i + 1, i + Len(sub)) = sub

\* String.prototype.endsWith
EndsWith(s, suffix) ==
    /\ Len(suffix) <= Len(s)
    /\ SubSeq(s, Len(s) - Len(suffix) + 1, Len(s)) = suffix

EmptyString == <<>>
Slash == <<"/">>

Id_shell_exec == <<"s", "h", "e", "l", "l", "_", "e", "x", "e", "c">>
Id_agent_browser == <<"a", "g", "e", "n", "t", "_", "b", "r", "o", "w", "s", "e", "r">>
Id_file_operations == <<"f", "i", "l", "e", "_", "o", "p", "e", "r", "a", "t", "i", "o", "n", "s">>
Id_web_search == <<"w", "e", "b", "_", "s", "e", "a", "r", "c", "h">>
Id_unknown == <<"u", "n", "k", "n", "o", "w", "n">>
Name_Shell == <<"S", "h", "e", "l", "l">>
Name_AgentBrowser == <<"A", "g", "e", "n", "t", "B", "r", "o", "w", "s", "e", "r">>
Name_FileOps == <<"F", "i", "l", "e", "O", "p", "s">>
Name_WebSearch == <<"W", "e", "b", "S", "e", "a", "r", "c", "h">>
Name_Unknown == <<"U", "n", "k", "n", "o", "w", "n">>
Name_McpTool == <<"M", "c", "p", "T", "o", "o", "l">>
GenericMcpPrefix == <<"g", "e", "n", "e", "r", "i", "c", "_", "m", "c", "p", "_">>

\* The keywords of inferCategory.
Kw_search == <<"s", "e", "a", "r", "c", "h">>
Kw_find == <<"f", "i", "n", "d">>
Kw_query == <<"q", "u", "e", "r", "y">>
Kw_file == <<"f", "i", "l", "e">>
Kw_read == <<"r", "e", "a", "d">>
Kw_write == <<"w", "r", "i", "t", "e">>
Kw_edit == <<"e", "d", "i", "t">>
Kw_exec == <<"e", "x", "e", "c">>
Kw_run == <<"r", "u", "n">>
Kw_command == <<"c", "o", "m", "m", "a", "n", "d">>
Kw_shell == <<"s", "h", "e", "l", "l">>
Kw_chart == <<"c", "h", "a", "r", "t">>
Kw_plot == <<"p", "l", "o", "t">>
Kw_analyze == <<"a", "n", "a", "l", "y", "z", "e">>
Kw_graph == <<"g", "r", "a", "p", "h">>
Kw_http == <<"h", "t", "t", "p">>
Kw_api == <<"a", "p", "i">>
Kw_request == <<"r", "e", "q", "u", "e", "s", "t">>
Kw_fetch == <<"f", "e", "t", "c", "h">>

\* ---------------------------------------------------------------- descriptors
\* ToolCategory
Categories == {"execution", "file_ops", "search", "analysis", "communication", "custom"}
\* availability.platforms of every descriptor the registry itself authors
AllPlatforms == {"darwin", "linux", "win32"}
\* process.platform
Platforms == {"linux", "darwin"}

\* A ToolDefinition, as far as the registry reads or fills it.
ToolDefinition(id, name, category, priority, platforms, experimental, capabilities, renderer) ==
    [id |-> id, name |-> name, category |-> category, priority |-> priority,
     platforms |-> platforms, experimental |-> experimental,
     capabilities |-> capabilities, renderer |-> renderer]

\* ToolCapabilities: streaming, images, charts, markdown, interaction.
Capabilities(streaming, images, charts, markdown, interaction) ==
    [supportsStreaming |-> streaming, supportsImages |-> images, supportsCharts |-> charts,
     supportsMarkdown |-> markdown, supportsInteraction |-> interaction]

\* undefined / null where a ToolDefinition is expected
NoTool ==
    ToolDefinition(EmptyString, EmptyString, "", -1, {}, FALSE,
                   Capabilities(FALSE, FALSE, FALSE, FALSE, FALSE), "")

\* An optional string: absent (or not a string), or the string val.
NoString == [some |-> FALSE, val |-> EmptyString]
SomeString(s) == [some |-> TRUE, val |-> s]

\* inputSchema: absent, without properties, or with the named properties.
NoSchema == [some |-> FALSE, hasProperties |-> FALSE, properties |-> {}]
Schema(props) == [some |-> TRUE, hasProperties |-> TRUE, properties |-> props]
SchemaWithoutProperties == [some |-> TRUE, hasProperties |-> FALSE, properties |-> {}]

\* McpToolInfo
McpToolInfo(serverName, name, description, inputSchema) ==
    [serverName |-> serverName, name |-> name, description |-> description,
     inputSchema |-> inputSchema]

\* The descriptors initializeBuiltinTools registers, in its order.
ShellExec ==
    ToolDefinition(Id_shell_exec, Name_Shell, "execution", 10, AllPlatforms, FALSE,
                   Capabilities(TRUE, FALSE, FALSE, TRUE, TRUE), "standard")
AgentBrowser ==
    ToolDefinition(Id_agent_browser, Name_AgentBrowser, "execution", 15, AllPlatforms, FALSE,
                   Capabilities(FALSE, FALSE, FALSE, TRUE, FALSE), "standard")
FileOperations ==
    ToolDefinition(Id_file_operations, Name_FileOps, "file_ops", 20, AllPlatforms, FALSE,
                   Capabilities(FALSE, FALSE, FALSE, TRUE, TRUE), "code")
WebSearch ==
    ToolDefinition(Id_web_search, Name_WebSearch, "search", 30, AllPlatforms, FALSE,
                   Capabilities(FALSE, TRUE, FALSE, TRUE, FALSE), "markdown")
InitialTools == <<ShellExec, AgentBrowser, FileOperations, WebSearch>>

\* CodexAgentEventType, the members the registry names and one it does not.
McpEventTypes == {"mcp_tool_call_begin", "mcp_tool_call_end"}
MappedEventTypes ==
    {"exec_command_begin", "exec_command_output_delta", "exec_command_end",
     "apply_patch_approval_request", "patch_apply_begin", "patch_apply_end",
     "web_search_begin", "web_search_end"}
EventTypes == McpEventTypes \cup MappedEventTypes \cup {"task_started"}

\* this.eventTypeMapping as initializeBuiltinTools fills it; a type without an
\* entry maps to no candidate.
StaticMapping ==
    [ e \in EventTypes |->
        CASE e \in {"exec_command_begin", "exec_command_output_delta", "exec_command_end"}
                -> <<Id_shell_exec>>
          [] e \in {"apply_patch_approval_request", "patch_apply_begin", "patch_apply_end"}
                -> <<Id_file_operations>>
          [] e \in {"web_search_begin", "web_search_end"} -> <<Id_web_search>>
          [] OTHER -> <<>> ]

\* ---------------------------------------------------------------- inputs
Srv_docs == <<"d", "o", "c", "s">>
Srv_web == <<"w", "e", "b">>
Nm_search_docs == <<"s", "e", "a", "r", "c", "h", "_", "d", "o", "c", "s">>
Nm_plot == <<"p", "l", "o", "t">>
Nm_v2_plot == <<"v", "2", "/", "p", "l", "o", "t">>
Nm_frobnicate == <<"f", "r", "o", "b", "n", "i", "c", "a", "t", "e">>
Id_docs_search_docs == <<"d", "o", "c", "s", "/", "s", "e", "a", "r", "c", "h", "_", "d", "o", "c", "s">>
Name_DocsSearch == <<"D", "o", "c", "s", "S", "e", "a", "r", "c", "h">>
Descr_find_things == <<"f", "i", "n", "d", " ", "t", "h", "i", "n", "g", "s">>

\* The MCP tools servers announce: the same tool name on two servers, a charting
\* tool, and a tool whose name ends with /plot without being plot.
McpToolInputs ==
    { McpToolInfo(Srv_docs, Nm_search_docs, NoString, NoSchema),
      McpToolInfo(Srv_web, Nm_search_docs, SomeString(Descr_find_things), Schema({"stream", "q"})),
      McpToolInfo(Srv_docs, Nm_plot, NoString, Schema({"image"})),
      McpToolInfo(Srv_web, Nm_v2_plot, NoString, NoSchema) }

\* Descriptors a caller passes to registerBuiltinTool: the shell tool restricted to
\* one platform, and a descriptor with an id and a priority of the caller's choice.
BuiltinToolInputs ==
    { ToolDefinition(Id_shell_exec, Name_Shell, "execution", 10, {"darwin"}, FALSE,
                     Capabilities(TRUE, FALSE, FALSE, TRUE, TRUE), "standard"),
      ToolDefinition(Id_docs_search_docs, Name_DocsSearch, "search", 250, AllPlatforms, FALSE,
                     Capabilities(FALSE, FALSE, FALSE, TRUE, FALSE), "markdown") }

\* The payload of an event: absent, without invocation, or with an invocation whose
\* method and name are each absent or a string.
NoEventData == [some |-> FALSE, invocation |-> FALSE, method |-> NoString, name |-> NoString]
Invocation(method, name) == [some |-> TRUE, invocation |-> TRUE, method |-> method, name |-> name]
EventDataWithoutInvocation ==
    [some |-> TRUE, invocation |-> FALSE, method |-> NoString, name |-> NoString]
McpEventData ==
    { NoEventData, EventDataWithoutInvocation,
      Invocation(NoString, NoString),
      Invocation(SomeString(Nm_search_docs), NoString),
      Invocation(NoString, SomeString(Nm_search_docs)),
      Invocation(SomeString(Nm_plot), SomeString(Nm_search_docs)),
      Invocation(SomeString(Nm_frobnicate), NoString),
      Invocation(SomeString(EmptyString), SomeString(Nm_plot)) }

\* ---------------------------------------------------------------- inputs of adaptMcpTool
Nm_SearchDocs == <<"S", "e", "a", "r", "c", "h", "D", "o", "c", "s">>
Nm_search_and_replace == <<"s", "e", "a", "r", "c", "h", "-", "a", "n", "d", "-", "r", "e", "p", "l", "a", "c", "e">>
Nm_read_query == <<"r", "e", "a", "d", "_", "q", "u", "e", "r", "y">>
Nm_run_file == <<"r", "u", "n", "_", "f", "i", "l", "e">>
Nm_ping == <<"p", "i", "n", "g">>
Nm_FETCH_URL == <<"F", "E", "T", "C", "H", "_", "U", "R", "L">>
Descr_file_manager == <<"f", "i", "l", "e", " ", "m", "a", "n", "a", "g", "e", "r">>
Descr_Search_the_web == <<"S", "e", "a", "r", "c", "h", " ", "t", "h", "e", " ", "w", "e", "b">>
Descr_runs_a_command == <<"r", "u", "n", "s", " ", "a", " ", "c", "o", "m", "m", "a", "n", "d">>
Descr_plot_a_graph == <<"p", "l", "o", "t", " ", "a", " ", "g", "r", "a", "p", "h">>
Descr_http_request == <<"h", "t", "t", "p", " ", "r", "e", "q", "u", "e", "s", "t">>
Descr_nothing_special == <<"d", "o", "e", "s", " ", "t", "h", "i", "n", "g", "s">>

\* Tool names: each keyword of inferCategory on its own, names in another case, names
\* with keywords of several groups, and names without any keyword.
AdaptNames ==
    { Kw_search, Kw_find, Kw_query, Kw_file, Kw_read, Kw_write,
      Kw_edit, Kw_exec, Kw_run, Kw_command, Kw_shell, Kw_chart,
      Kw_plot, Kw_analyze, Kw_graph, Kw_http, Kw_api, Kw_request,
      Kw_fetch,
      Nm_search_docs, Nm_plot, Nm_frobnicate, Nm_SearchDocs, Nm_search_and_replace,
      Nm_read_query, Nm_run_file, Nm_ping, Nm_FETCH_URL }

\* Descriptions: none, one with a keyword of each group, and one without any.
AdaptDescriptions ==
    { NoString, SomeString(Descr_find_things), SomeString(Descr_file_manager),
      SomeString(Descr_Search_the_web), SomeString(Descr_runs_a_command),
      SomeString(Descr_plot_a_graph), SomeString(Descr_http_request),
      SomeString(Descr_nothing_special) }

AdaptSchemas ==
    { NoSchema, SchemaWithoutProperties, Schema({"q"}), Schema({"stream"}),
      Schema({"image"}), Schema({"img"}), Schema({"stream", "img", "q"}) }

\* What adaptMcpTool is applied to: every name with every description, and every
\* schema with one of the names.
AdaptInputs ==
    { McpToolInfo(Srv_docs, n, d, NoSchema) : n \in AdaptNames, d \in AdaptDescriptions }
        \cup { McpToolInfo(Srv_docs, Nm_ping, NoString, sch) : sch \in AdaptSchemas }

\* ---------------------------------------------------------------- the registry's code
\* Map.prototype.get on a table kept in insertion order; NoTool for undefined.
MapGet(table, id) ==
    IF \E i \in 1..Len(table) : table[i].id = id
    THEN table[CHOOSE i \in 1..Len(table) : table[i].id = id]
    ELSE NoTool

\* Map.prototype.set: a key already present keeps its position and gets the new value.
MapSet(table, tool) ==
    IF \E i \in 1..Len(table) : table[i].id = tool.id
    THEN [ i \in 1..Len(table) |-> IF table[i].id = tool.id THEN tool ELSE table[i] ]
    ELSE Append(table, tool)

\* registerBuiltinTool(tool): this.tools.set(tool.id, tool)
registerBuiltinToolCode(tool) == MapSet(tools, tool)

\* inferCategory with the FileOps keywords tested before the Search keywords.
inferCategoryFileOpsFirst(mcpTool) ==
    LET name == ToLowerCase(mcpTool.name)
        description == IF mcpTool.description.some
                       THEN ToLowerCase(mcpTool.description.val)
                       ELSE EmptyString
    IN  IF \/ Includes(name, Kw_file) \/ Includes(name, Kw_read)
           \/ Includes(name, Kw_write) \/ Includes(name, Kw_edit)
        THEN "file_ops"
        ELSE IF \/ Includes(name, Kw_search) \/ Includes(name, Kw_find)
                \/ Includes(name, Kw_query) \/ Includes(description, Kw_search)
        THEN "search"
        ELSE IF \/ Includes(name, Kw_exec) \/ Includes(name, Kw_run)
                \/ Includes(name, Kw_command) \/ Includes(name, Kw_shell)
        THEN "execution"
        ELSE IF \/ Includes(name, Kw_chart) \/ Includes(name, Kw_plot)
                \/ Includes(name, Kw_analyze) \/ Includes(name, Kw_graph)
        THEN "analysis"
        ELSE IF \/ Includes(name, Kw_http) \/ Includes(name, Kw_api)
                \/ Includes(name, Kw_request) \/ Includes(name, Kw_fetch)
        THEN "communication"
        ELSE "custom"

\* inferCategory(mcpTool)
inferCategory(mcpTool) ==
    LET name == ToLowerCase(mcpTool.name)
        description == IF mcpTool.description.some
                       THEN ToLowerCase(mcpTool.description.val)
                       ELSE EmptyString
    IN  IF \/ Includes(name, Kw_search) \/ Includes(name, Kw_find)
           \/ Includes(name, Kw_query) \/ Includes(description, Kw_search)
        THEN "search"
        ELSE IF \/ Includes(name, Kw_file) \/ Includes(name, Kw_read)
                \/ Includes(name, Kw_write) \/ Includes(name, Kw_edit)
        THEN "file_ops"
        ELSE IF \/ Includes(name, Kw_exec) \/ Includes(name, Kw_run)
                \/ Includes(name, Kw_command) \/ Includes(name, Kw_shell)
        THEN "execution"
        ELSE IF \/ Includes(name, Kw_chart) \/ Includes(name, Kw_plot)
                \/ Includes(name, Kw_analyze) \/ Includes(name, Kw_graph)
        THEN "analysis"
        ELSE IF \/ Includes(name, Kw_http) \/ Includes(name, Kw_api)
                \/ Includes(name, Kw_request) \/ Includes(name, Kw_fetch)
        THEN "communication"
        ELSE "custom"

\* inferCapabilities that reads the property image but not img.
inferCapabilitiesImageOnly(inputSchema) ==
    LET properties == IF inputSchema.some /\ inputSchema.hasProperties
                      THEN inputSchema.properties
                      ELSE {}
    IN  Capabilities("stream" \in properties, "image" \in properties, FALSE, TRUE, TRUE)

\* inferCapabilities(inputSchema)
inferCapabilities(inputSchema) ==
    LET properties == IF inputSchema.some /\ inputSchema.hasProperties
                      THEN inputSchema.properties
                      ELSE {}
        hasStreamParam == "stream" \in properties
        hasImageParam == "image" \in properties \/ "img" \in properties
    IN  Capabilities(hasStreamParam, hasImageParam, FALSE, TRUE, TRUE)

\* selectRenderer(mcpTool)
selectRenderer(mcpTool) ==
    LET category == inferCategory(mcpTool) IN
    CASE category = "file_ops" -> "code"
      [] category = "analysis" -> "chart"
      [] category = "search" -> "markdown"
      [] OTHER -> "standard"

\* adaptMcpTool(mcpTool)
adaptMcpTool(mcpTool) ==
    LET fullyQualifiedName == mcpTool.serverName \o Slash \o mcpTool.name IN
    ToolDefinition(fullyQualifiedName, mcpTool.name, inferCategory(mcpTool), 100,
                   AllPlatforms, TRUE, inferCapabilities(mcpTool.inputSchema),
                   selectRenderer(mcpTool))

\* registerMcpTool(mcpTool): this.mcpTools.set(toolDef.id, toolDef)
registerMcpToolCode(mcpTool) == MapSet(mcpTools, adaptMcpTool(mcpTool))

\* extractMethodFromInvocation(invocation)
extractMethodFromInvocation(invocation) ==
    IF invocation.method.some THEN invocation.method.val
    ELSE IF invocation.name.some THEN invocation.name.val
    ELSE EmptyString

\* inferMcpToolId without the comparison with the tool's name and without the
\* server prefix: only a tool whose whole id is the method matches.
inferMcpToolIdExactId(invocation) ==
    LET method == extractMethodFromInvocation(invocation) IN
    IF method = EmptyString THEN EmptyString
    ELSE IF \E i \in 1..Len(mcpTools) : mcpTools[i].id = method
    THEN method
    ELSE EmptyString

\* inferMcpToolId that keeps the last match of the loop instead of returning at the first.
inferMcpToolIdLastMatch(invocation) ==
    LET method == extractMethodFromInvocation(invocation)
        Matches(i) == \/ EndsWith(mcpTools[i].id, Slash \o method)
                      \/ mcpTools[i].name = method
    IN  IF method = EmptyString THEN EmptyString
        ELSE IF \E i \in 1..Len(mcpTools) : Matches(i)
        THEN mcpTools[CHOOSE i \in 1..Len(mcpTools) :
                         Matches(i) /\ \A j \in (i + 1)..Len(mcpTools) : ~Matches(j)].id
        ELSE EmptyString

\* inferMcpToolId(invocation): the first registered MCP tool, in the table's order,
\* whose id ends with /method or whose name is method.
inferMcpToolId(invocation) ==
    LET method == extractMethodFromInvocation(invocation)
        Matches(i) == \/ EndsWith(mcpTools[i].id, Slash \o method)
                      \/ mcpTools[i].name = method
    IN  IF method = EmptyString THEN EmptyString
        ELSE IF \E i \in 1..Len(mcpTools) : Matches(i)
        THEN mcpTools[CHOOSE i \in 1..Len(mcpTools) :
                         Matches(i) /\ \A j \in 1..(i - 1) : ~Matches(j)].id
        ELSE EmptyString

\* createGenericMcpTool that ignores the invocation.
createGenericMcpToolAnonymous(eventData) ==
    ToolDefinition(GenericMcpPrefix \o Name_McpTool, Name_McpTool, "custom", 200, AllPlatforms,
                   TRUE, Capabilities(FALSE, TRUE, TRUE, TRUE, FALSE), "standard")

\* createGenericMcpTool(mcpData?.invocation)
createGenericMcpTool(eventData) ==
    LET extracted == extractMethodFromInvocation(eventData)
        method == IF eventData.some /\ eventData.invocation /\ extracted # EmptyString
                  THEN extracted
                  ELSE Name_McpTool
    IN  ToolDefinition(GenericMcpPrefix \o method, method, "custom", 200, AllPlatforms,
                       TRUE, Capabilities(FALSE, TRUE, TRUE, TRUE, FALSE), "standard")

\* isToolAvailable that accepts every platform.
isToolAvailableAnywhere(tool) == TRUE

\* isToolAvailable(tool)
isToolAvailable(tool) == platform \in tool.platforms

\* getDefaultTool(eventType)
getDefaultTool ==
    ToolDefinition(Id_unknown, Name_Unknown, "custom", 999, AllPlatforms, FALSE,
                   Capabilities(FALSE, FALSE, FALSE, FALSE, FALSE), "standard")

\* The candidates left in the order of the candidate list.
SortByPriorityUnsorted(list) == list

\* .sort((a, b) => a.priority - b.priority): ascending by priority, and stable.
SortByPriority(list) ==
    LET n == Len(list)
        Before(a, b) == \/ list[a].priority < list[b].priority
                        \/ (list[a].priority = list[b].priority /\ a < b)
        Rank(a) == Cardinality({ b \in 1..n : Before(b, a) }) + 1
    IN  [ k \in 1..n |-> list[CHOOSE a \in 1..n : Rank(a) = k] ]

\* resolveToolForEvent without the final `|| this.getDefaultTool(eventType)`.
resolveToolForEventNoDefault(eventType, eventData) ==
    IF eventType \in McpEventTypes
    THEN LET mcpTool == IF eventData.some /\ eventData.invocation
                        THEN MapGet(mcpTools, inferMcpToolId(eventData))
                        ELSE NoTool
         IN  IF mcpTool # NoTool THEN mcpTool ELSE createGenericMcpTool(eventData)
    ELSE LET candidateIds == eventTypeMapping[eventType]
             found == [ i \in 1..Len(candidateIds) |->
                          IF MapGet(tools, candidateIds[i]) # NoTool
                          THEN MapGet(tools, candidateIds[i])
                          ELSE MapGet(mcpTools, candidateIds[i]) ]
             availableTools ==
                 SortByPriority(SelectSeq(SelectSeq(found, LAMBDA t : t # NoTool),
                                          isToolAvailable))
         IN  IF availableTools # <<>> THEN availableTools[1] ELSE NoTool

\* resolveToolForEvent(eventType, eventData)
resolveToolForEvent(eventType, eventData) ==
    IF eventType \in McpEventTypes
    THEN LET mcpTool == IF eventData.some /\ eventData.invocation
                        THEN MapGet(mcpTools, inferMcpToolId(eventData))
                        ELSE NoTool
         IN  IF mcpTool # NoTool THEN mcpTool ELSE createGenericMcpTool(eventData)
    ELSE LET candidateIds == eventTypeMapping[eventType]
             found == [ i \in 1..Len(candidateIds) |->
                          IF MapGet(tools, candidateIds[i]) # NoTool
                          THEN MapGet(tools, candidateIds[i])
                          ELSE MapGet(mcpTools, candidateIds[i]) ]
             availableTools ==
                 SortByPriority(SelectSeq(SelectSeq(found, LAMBDA t : t # NoTool),
                                          isToolAvailable))
         IN  IF availableTools # <<>> THEN availableTools[1] ELSE getDefaultTool

\* getAllTools()
getAllTools == tools \o mcpTools

\* getToolsByCategory(category)
getToolsByCategory(category) == SelectSeq(getAllTools, LAMBDA t : t.category = category)

\* getTool(id)
getTool(id) == IF MapGet(tools, id) # NoTool THEN MapGet(tools, id) ELSE MapGet(mcpTools, id)


\* ---------------------------------------------------------------- localized lookups
\* How a call of i18n.t ends.  The i18n module is imported from renderer/i18n;
\* a lookup either yields a translation or fails by throwing.
I18nOutcomes == {"translated", "throws"}

\* The value a call returned, and a call that ended by throwing.
Returned(value) == [thrown |-> FALSE, value |-> value]
Thrown == [thrown |-> TRUE, value |-> EmptyString]

\* fallbackParams as the caller passes them: undefined, or a record of parameters.
NoParams == [given |-> FALSE, toolName |-> EmptyString]
Params(toolName) == [given |-> TRUE, toolName |-> toolName]

\* fallbackParams || {}
OrEmptyParams(fallbackParams) ==
    IF fallbackParams.given THEN {<<"toolName", fallbackParams.toolName>>} ELSE {}

\* i18n.t(key, params): the translation stored under key, interpolated with params.
i18n_t(key, params, outcome) ==
    IF outcome = "throws" THEN Thrown
    ELSE Returned([translationOf |-> key, with |-> params])

\* The keys adaptMcpTool puts into the descriptor of an MCP tool.
McpKey(mcpTool, leaf) ==
    <<"tools", "mcp", mcpTool.serverName, mcpTool.name, leaf>>
adaptMcpToolKeys(mcpTool) ==
    [displayNameKey |-> McpKey(mcpTool, "displayName"),
     descriptionKey |-> McpKey(mcpTool, "description")]

\* `Tool: ${tool.name}`
ToolPrefix == <<"T", "o", "o", "l", ":", " ">>

\* getToolDisplayName without its try/catch.
getToolDisplayNameNoCatch(tool, fallbackParams, outcome) ==
    i18n_t(tool.displayNameKey, OrEmptyParams(fallbackParams), outcome)

\* getToolDisplayName(tool, fallbackParams)
getToolDisplayName(tool, fallbackParams, outcome) ==
    LET t == i18n_t(tool.displayNameKey, OrEmptyParams(fallbackParams), outcome)
    IN  IF t.thrown THEN Returned(tool.name) ELSE t

\* getToolDescription(tool, fallbackParams)
getToolDescription(tool, fallbackParams, outcome) ==
    LET t == i18n_t(tool.descriptionKey, OrEmptyParams(fallbackParams), outcome)
    IN  IF t.thrown THEN Returned(ToolPrefix \o tool.name) ELSE t


\* ---------------------------------------------------------------- executeInstall
\* The CLIs executeInstall is called for.
CliIds == {"claude", "codex"}

\* The code the child closes with: 0, another exit code, null when a signal
\* ended it, or a negative errno when it could not be spawned.
ExitCodes == {"0", "1", "null", "-2"}

\* No executeInstall call has been made.
NoInstall ==
    [cliId |-> "", child |-> "none", killed |-> FALSE, errorEmitted |-> FALSE,
     timer |-> "none", stderr |-> "", outputs |-> 0, emitted |-> <<>>, resolved |-> <<>>]

\* ipcBridge.cliInstaller.installProgress.emit({cliId, status, ...})
Emit(i, status, text) ==
    [i EXCEPT !.emitted = Append(@, [cliId |-> i.cliId, status |-> status, text |-> text])]

\* resolve(value) of the promise executeInstall returned
Resolve(i, value) == [i EXCEPT !.resolved = Append(@, value)]

\* executeInstall(cliId, method, command), to the return of the promise: it
\* emits the first event, spawns the child and sets the timer; spawned: whether
\* the shell could be spawned.
executeInstall(cliId, spawned) ==
    [Emit([NoInstall EXCEPT !.cliId = cliId], "installing", "Installing")
        EXCEPT !.child = IF spawned THEN "running" ELSE "failed",
               !.timer = "armed"]

\* child.stdout.on('data'), child.stderr.on('data')
onData(i, stream) ==
    [Emit(i, "installing", "output")
        EXCEPT !.stderr = IF stream = "stderr" THEN "text" ELSE i.stderr,
               !.outputs = @ + 1]

\* child.on('error')
onError(i) ==
    [Resolve(Emit(i, "failed", "err.message"), [success |-> FALSE, error |-> "err.message"])
        EXCEPT !.errorEmitted = TRUE]

\* child.on('close'); isWindows: process.platform === 'win32'
onClose(i, code, isWindows) ==
    [(IF code = "0"
      THEN Resolve(Emit(i, "success", "installed successfully"),
                   [success |-> TRUE, needsRestart |-> isWindows])
      ELSE LET errorMsg == IF i.stderr # "" THEN i.stderr ELSE "exit code " \o code
           IN  Resolve(Emit(i, "failed", errorMsg), [success |-> FALSE, error |-> errorMsg]))
        EXCEPT !.child = "closed"]

\* child.kill('SIGTERM'): the signal is sent, and killed set, when the child
\* still has a process.
childKill(i) == [i EXCEPT !.killed = i.killed \/ i.child = "running"]

\* The setTimeout callback, INSTALL_TIMEOUT_MS after the call.
onTimeout(i) ==
    IF ~i.killed
    THEN [Resolve(Emit(childKill(i), "failed", "Installation timed out"),
                  [success |-> FALSE, error |-> "Installation timed out (5 minutes)"])
            EXCEPT !.timer = "fired"]
    ELSE [i EXCEPT !.timer = "fired"]


\* The registry after `new ToolRegistry()`.
NoRLast == [op |-> "init", eventType |-> "", data |-> NoEventData, ret |-> NoTool, list |-> <<>>]

\* No McpToolInfo is being adapted.
NoAdapted == [info |-> McpToolInfo(EmptyString, EmptyString, NoString, NoSchema),
              ret |-> NoTool, done |-> FALSE, label |-> [op |-> "none"]]

RegistryConstructed ==
    /\ tools = InitialTools
    /\ mcpTools = <<>>
    /\ mcpOrder = <<>>
    /\ eventTypeMapping = StaticMapping
    /\ rlast = NoRLast
    /\ adapted = NoAdapted


\* ---------------------------------------------------------------- the operations
\* The registry of tasks after the module is loaded.
WorkerConstructed ==
    /\ taskList = <<>>
    /\ tasks = [t \in Tasks |-> NoTask]
    /\ pending = [i \in Ids |-> [a \in DbAnswers |-> 0]]
    /\ last = NoLast
    /\ steps = 0
    /\ made = [i \in Ids |-> {}]
    /\ gocTask = [i \in Ids |-> Null]

Init ==
    /\ WorkerConstructed
    /\ RegistryConstructed
    /\ platform = "linux"
    /\ install = NoInstall

\* One more operation runs, while the model's bound on their number allows.
Tick == steps < MaxSteps /\ steps' = steps + 1

\* The tasks made for each id, after an operation that left the registry `list`
\* and made the tasks `new` for id: an id whose entry is gone starts afresh.
Made(list, id, new) ==
    [i \in Ids |-> IF i \notin TrackedIds(list) THEN {}
                   ELSE IF i = id THEN made[i] \cup new ELSE made[i]]

\* What the database answered, as the caller sees it.
DbAnswer(dbResult) == IF dbResult.data # NoConv THEN "hit" ELSE dbResult.error

\* buildConversation(conversation), called with the caller's conversation (getOrCreate).
GetOrCreate(id, type) ==
    LET out == buildConversation(Conv(id, type)) IN
    /\ Tick
    /\ out.built # {} => NextTask <= MaxTasks
    /\ taskList' = out.list
    /\ tasks' = out.tasks
    /\ last' = [NoLast EXCEPT !.op = "getOrCreate", !.id = id, !.type = type,
                              !.ret = out.ret, !.tracked = id \in TrackedIds(taskList),
                              !.changed = out.list # taskList, !.built = out.built]
    /\ made' = Made(out.list, id, out.built)
    /\ gocTask' = IF out.built # {} THEN [gocTask EXCEPT ![id] = out.ret] ELSE gocTask
    /\ UNCHANGED pending
    /\ UNCHANGED registryVars
    /\ UNCHANGED install

\* getTaskById(id) (getById)
GetById(id) ==
    /\ Tick
    /\ last' = [NoLast EXCEPT !.op = "getById", !.id = id, !.ret = getTaskById(id),
                              !.tracked = id \in TrackedIds(taskList)]
    /\ UNCHANGED <<taskList, tasks, pending, made, gocTask>>
    /\ UNCHANGED registryVars
    /\ UNCHANGED install

\* getTaskByIdRollbackBuild(id) (recoverById), from the call to its return or to its
\* await; dbResult is what db.getConversation(id) answers.
RecoverStart(id, dbResult) ==
    LET r == RollbackBuildSync(id, dbResult) IN
    /\ Tick
    /\ r.next = "await" => Suspended < MaxPending
    /\ r.out.built # {} => NextTask <= MaxTasks
    \* the database's answer is an input only of a call that asks it
    /\ r.queried = <<>> => dbResult = [success |-> FALSE, data |-> NoConv, error |-> "not found"]
    /\ taskList' = r.out.list
    /\ tasks' = r.out.tasks
    /\ pending' = IF r.next = "await"
                  THEN [pending EXCEPT ![id][DbAnswer(dbResult)] = @ + 1]
                  ELSE pending
    /\ last' = [NoLast EXCEPT !.op = IF r.next = "await" THEN "recoverSuspend" ELSE "recoverById",
                              !.id = id, !.ret = r.out.ret, !.err = r.err,
                              !.tracked = id \in TrackedIds(taskList),
                              !.changed = r.out.list # taskList,
                              !.built = r.out.built, !.queried = r.queried,
                              !.db = IF r.queried = <<>> THEN "" ELSE DbAnswer(dbResult),
                              !.rec = IF r.queried = <<>> THEN NoConv ELSE dbResult.data]
    /\ made' = Made(r.out.list, id, r.out.built)
    /\ UNCHANGED gocTask
    /\ UNCHANGED registryVars
    /\ UNCHANGED install

\* getTaskByIdRollbackBuild(id), from the await's completion to the return; dbAnswer is
\* what the database had answered, conversation what the file storage holds for id.
RecoverResume(id, dbAnswer, conversation) ==
    LET r == RollbackBuildResume(id, conversation) IN
    /\ Tick
    /\ pending[id][dbAnswer] > 0
    /\ r.out.built # {} => NextTask <= MaxTasks
    /\ taskList' = r.out.list
    /\ tasks' = r.out.tasks
    /\ pending' = [pending EXCEPT ![id][dbAnswer] = @ - 1]
    /\ last' = [NoLast EXCEPT !.op = "recoverById", !.id = id, !.ret = r.out.ret,
                              !.err = r.err, !.tracked = id \in TrackedIds(taskList),
                              !.changed = r.out.list # taskList,
                              !.built = r.out.built, !.db = dbAnswer, !.rec = conversation,
                              !.queried = <<"primary", "secondary">>]
    /\ made' = Made(r.out.list, id, r.out.built)
    /\ UNCHANGED gocTask
    /\ UNCHANGED registryVars
    /\ UNCHANGED install

\* kill(id); throws: whether the task's kill() throws.
Kill(id, throws) ==
    LET r == killCode(id, throws) IN
    /\ Tick
    /\ throws => FindIndex(taskList, id) # 0
    /\ taskList' = r.list
    /\ tasks' = r.tasks
    /\ last' = [NoLast EXCEPT !.op = "kill", !.id = id, !.err = r.err,
                              !.tracked = id \in TrackedIds(taskList),
                              !.changed = r.list # taskList,
                              !.signalled = r.signalled]
    /\ made' = Made(r.list, id, {})
    /\ gocTask' = [gocTask EXCEPT ![id] = Null]
    /\ UNCHANGED pending
    /\ UNCHANGED registryVars
    /\ UNCHANGED install

\* clear(); k: the position in taskList of the first task whose kill() throws, 0 for none.
Clear(k) ==
    LET r == clearCode(k) IN
    /\ Tick
    /\ k <= Len(taskList)
    /\ taskList' = r.list
    /\ tasks' = r.tasks
    /\ last' = [NoLast EXCEPT !.op = "clear", !.err = r.err, !.tracked = taskList # <<>>,
                              !.changed = r.list # taskList,
                              !.signalled = r.signalled]
    /\ made' = [i \in Ids |-> IF i \in TrackedIds(r.list) THEN made[i] ELSE {}]
    /\ UNCHANGED <<pending, gocTask>>
    /\ UNCHANGED registryVars
    /\ UNCHANGED install

\* addTask(id, task), with a task object the caller constructed.
AddTask(id, type) ==
    LET task == NextTask IN
    /\ Tick
    /\ NextTask <= MaxTasks
    /\ taskList' = addTaskCode(id, task)
    /\ tasks' = Construct(tasks, task, Conv(id, type))
    /\ last' = [NoLast EXCEPT !.op = "addTask", !.id = id, !.type = type,
                              !.tracked = id \in TrackedIds(taskList), !.changed = TRUE]
    /\ made' = [made EXCEPT ![id] = {task}]
    /\ UNCHANGED <<pending, gocTask>>
    /\ UNCHANGED registryVars
    /\ UNCHANGED install

\* listTasks()
ListTasks ==
    /\ Tick
    /\ last' = [NoLast EXCEPT !.op = "listTasks", !.list = listTasksCode]
    /\ UNCHANGED <<taskList, tasks, pending, made, gocTask>>
    /\ UNCHANGED registryVars
    /\ UNCHANGED install

Next ==
    \/ \E id \in Ids, type \in Types : GetOrCreate(id, type)
    \/ \E id \in Ids : GetById(id)
    \/ \E id \in Ids : \E dbResult \in PrimaryResults(id) : RecoverStart(id, dbResult)
    \/ \E id \in Ids, dbAnswer \in DbAnswers :
          \E conversation \in SecondaryResults(id) : RecoverResume(id, dbAnswer, conversation)
    \/ \E id \in Ids, throws \in BOOLEAN : Kill(id, throws)
    \/ \E k \in 0..MaxTasks : Clear(k)
    \/ \E id \in Ids : AddTask(id, "acp")
    \/ ListTasks

Spec == Init /\ [][Next]_vars

\* ---------------------------------------------------------------- the tasks' lifecycle
\* A task begins to start its backend session.
TaskStart(t) ==
    /\ tasks[t].state = "idle"
    /\ tasks' = [tasks EXCEPT ![t].state = "starting"]
    /\ UNCHANGED <<taskList, pending, last, steps, made, gocTask>>
    /\ UNCHANGED registryVars
    /\ UNCHANGED install

\* The backend session of a starting task is up.
TaskStarted(t) ==
    /\ tasks[t].state = "starting"
    /\ tasks' = [tasks EXCEPT ![t].state = "running"]
    /\ UNCHANGED <<taskList, pending, last, steps, made, gocTask>>
    /\ UNCHANGED registryVars
    /\ UNCHANGED install

\* The backend session of a running task ends on its own.
BackendExit(t) ==
    /\ tasks[t].state = "running"
    /\ tasks' = [tasks EXCEPT ![t].state = "exited"]
    /\ UNCHANGED <<taskList, pending, last, steps, made, gocTask>>
    /\ UNCHANGED registryVars
    /\ UNCHANGED install

\* The registry's operations that construct and terminate tasks, and the tasks'
\* own steps.
LifecycleNext ==
    \/ \E id \in Ids, type \in Types : GetOrCreate(id, type)
    \/ \E id \in Ids, throws \in BOOLEAN : Kill(id, throws)
    \/ \E k \in 0..MaxTasks : Clear(k)
    \/ \E id \in Ids : AddTask(id, "acp")
    \/ \E t \in Tasks : TaskStart(t)
    \/ \E t \in Tasks : TaskStarted(t)
    \/ \E t \in Tasks : BackendExit(t)

LifecycleSpec == Init /\ [][LifecycleNext]_vars

\* ================================================================ ToolRegistry: operations
\* registerBuiltinTool(tool)
RegisterBuiltinTool(tool) ==
    /\ tools' = registerBuiltinToolCode(tool)
    /\ rlast' = [NoRLast EXCEPT !.op = "registerBuiltinTool", !.ret = tool]
    /\ UNCHANGED <<mcpTools, eventTypeMapping, platform, adapted, mcpOrder>>
    /\ UNCHANGED workerVars
    /\ UNCHANGED install

\* registerMcpTool(mcpTool)
RegisterMcpTool(mcpTool) ==
    /\ mcpTools' = registerMcpToolCode(mcpTool)
    /\ rlast' = [NoRLast EXCEPT !.op = "registerMcpTool", !.ret = adaptMcpTool(mcpTool)]
    /\ mcpOrder' = IF \E i \in 1..Len(mcpOrder) : mcpOrder[i] = adaptMcpTool(mcpTool).id
                   THEN mcpOrder
                   ELSE Append(mcpOrder, adaptMcpTool(mcpTool).id)
    /\ UNCHANGED <<tools, eventTypeMapping, platform, adapted>>
    /\ UNCHANGED workerVars
    /\ UNCHANGED install

\* The payloads an event type is resolved with: the payload of a type that is not
\* an MCP tool call is not read.
EventDataOf(eventType) == IF eventType \in McpEventTypes THEN McpEventData ELSE {NoEventData}

\* resolveToolForEvent(eventType, eventData)
ResolveToolForEvent(eventType, eventData) ==
    /\ eventData \in EventDataOf(eventType)
    /\ rlast' = [NoRLast EXCEPT !.op = "resolveToolForEvent", !.eventType = eventType,
                                !.data = eventData,
                                !.ret = resolveToolForEvent(eventType, eventData)]
    /\ UNCHANGED <<tools, mcpTools, eventTypeMapping, platform, adapted, mcpOrder>>
    /\ UNCHANGED workerVars
    /\ UNCHANGED install

\* getAllTools()
GetAllTools ==
    /\ rlast' = [NoRLast EXCEPT !.op = "getAllTools", !.list = getAllTools]
    /\ UNCHANGED <<tools, mcpTools, eventTypeMapping, platform, adapted, mcpOrder>>
    /\ UNCHANGED workerVars
    /\ UNCHANGED install

\* getToolsByCategory(category)
GetToolsByCategory(category) ==
    /\ rlast' = [NoRLast EXCEPT !.op = "getToolsByCategory",
                                !.list = getToolsByCategory(category)]
    /\ UNCHANGED <<tools, mcpTools, eventTypeMapping, platform, adapted, mcpOrder>>
    /\ UNCHANGED workerVars
    /\ UNCHANGED install

\* getTool(id)
GetTool(id) ==
    /\ rlast' = [NoRLast EXCEPT !.op = "getTool", !.ret = getTool(id)]
    /\ UNCHANGED <<tools, mcpTools, eventTypeMapping, platform, adapted, mcpOrder>>
    /\ UNCHANGED workerVars
    /\ UNCHANGED install

ToolIds == {Id_shell_exec, Id_docs_search_docs, Id_unknown}

RegistryNext ==
    \/ \E tool \in BuiltinToolInputs : RegisterBuiltinTool(tool)
    \/ \E mcpTool \in McpToolInputs : RegisterMcpTool(mcpTool)
    \/ \E eventType \in EventTypes :
          \E eventData \in McpEventData :
              ResolveToolForEvent(eventType, eventData)
    \/ GetAllTools
    \/ \E category \in Categories : GetToolsByCategory(category)
    \/ \E id \in ToolIds : GetTool(id)

\* The registry on each platform, with the mapping table the constructor fills.
RegistryInit ==
    /\ WorkerConstructed
    /\ RegistryConstructed
    /\ platform \in Platforms
    /\ install = NoInstall

RegistrySpec == RegistryInit /\ [][RegistryNext]_vars

\* ---------------------------------------------------------------- candidate selection
\* The selection of resolveToolForEvent (map, filter, sort, first) is written for any
\* candidate list, while initializeBuiltinTools gives every event type one candidate.
\* These tables give one event type two candidates, in either order.
TwoCandidateMappings ==
    { [StaticMapping EXCEPT !["exec_command_begin"] = <<Id_shell_exec, Id_file_operations>>],
      [StaticMapping EXCEPT !["exec_command_begin"] = <<Id_file_operations, Id_shell_exec>>] }

SelectionInit ==
    /\ WorkerConstructed
    /\ tools = InitialTools
    /\ mcpTools = <<>>
    /\ mcpOrder = <<>>
    /\ eventTypeMapping \in TwoCandidateMappings
    /\ rlast = NoRLast
    /\ adapted = NoAdapted
    /\ platform \in Platforms
    /\ install = NoInstall

SelectionSpec == SelectionInit /\ [][RegistryNext]_vars

\* ---------------------------------------------------------------- adaptMcpTool
\* adaptMcpTool(mcpTool), applied to the McpToolInfo chosen at the start.
AdaptMcpTool ==
    /\ ~adapted.done
    /\ adapted' = [adapted EXCEPT !.ret = adaptMcpTool(adapted.info), !.done = TRUE]
    /\ UNCHANGED <<tools, mcpTools, eventTypeMapping, platform, rlast, mcpOrder>>
    /\ UNCHANGED workerVars
    /\ UNCHANGED install

\* The descriptor adaptMcpTool returned, with its translation keys.
AdaptedTool ==
    [name |-> adapted.ret.name,
     displayNameKey |-> adaptMcpToolKeys(adapted.info).displayNameKey,
     descriptionKey |-> adaptMcpToolKeys(adapted.info).descriptionKey]

\* The fallbackParams a caller passes for the adapted tool.
AdaptParams == { NoParams } \cup { Params(n) : n \in AdaptNames }

\* getToolDisplayName(tool, fallbackParams) on the adapted descriptor
GetToolDisplayName(fallbackParams, outcome) ==
    /\ adapted.done
    /\ fallbackParams.given => fallbackParams.toolName = adapted.ret.name
    /\ adapted' = [adapted EXCEPT !.label =
                      [op |-> "getToolDisplayName", i18n |-> outcome, params |-> fallbackParams,
                       result |-> getToolDisplayName(AdaptedTool, fallbackParams, outcome)]]
    /\ UNCHANGED <<tools, mcpTools, eventTypeMapping, platform, rlast, mcpOrder>>
    /\ UNCHANGED workerVars
    /\ UNCHANGED install

\* getToolDescription(tool, fallbackParams) on the adapted descriptor
GetToolDescription(fallbackParams, outcome) ==
    /\ adapted.done
    /\ fallbackParams.given => fallbackParams.toolName = adapted.ret.name
    /\ adapted' = [adapted EXCEPT !.label =
                      [op |-> "getToolDescription", i18n |-> outcome, params |-> fallbackParams,
                       result |-> getToolDescription(AdaptedTool, fallbackParams, outcome)]]
    /\ UNCHANGED <<tools, mcpTools, eventTypeMapping, platform, rlast, mcpOrder>>
    /\ UNCHANGED workerVars
    /\ UNCHANGED install

AdaptInit ==
    /\ WorkerConstructed
    /\ tools = InitialTools
    /\ mcpTools = <<>>
    /\ mcpOrder = <<>>
    /\ eventTypeMapping = StaticMapping
    /\ rlast = NoRLast
    /\ platform = "linux"
    /\ install = NoInstall
    /\ adapted \in { [info |-> info, ret |-> NoTool, done |-> FALSE, label |-> [op |-> "none"]] :
                        info \in AdaptInputs }

AdaptNext ==
    \/ AdaptMcpTool
    \/ \E fallbackParams \in AdaptParams, outcome \in I18nOutcomes :
          \/ GetToolDisplayName(fallbackParams, outcome)
          \/ GetToolDescription(fallbackParams, outcome)

AdaptSpec == AdaptInit /\ [][AdaptNext]_vars

\* ---------------------------------------------------------------- an installation
\* executeInstall(cliId, method, command) is called.
ExecuteInstall(cliId, spawned) ==
    /\ install.child = "none"
    /\ install' = executeInstall(cliId, spawned)
    /\ UNCHANGED workerVars
    /\ UNCHANGED registryVars

\* The child writes to stdout or to stderr.
ChildData(stream) ==
    /\ install.child = "running"
    /\ install.outputs < MaxOutput
    /\ install' = onData(install, stream)
    /\ UNCHANGED workerVars
    /\ UNCHANGED registryVars

\* The child emits 'error': the shell could not be spawned.
ChildError ==
    /\ install.child = "failed"
    /\ ~install.errorEmitted
    /\ install' = onError(install)
    /\ UNCHANGED workerVars
    /\ UNCHANGED registryVars

\* The child emits 'close': after it exited with code 0 or 1, after a signal
\* ended it (code null), or after it failed to spawn and 'error' was emitted.
ChildClose(code) ==
    /\ \/ install.child = "running" /\ ~install.killed /\ code \in {"0", "1"}
       \/ install.child = "running" /\ install.killed /\ code = "null"
       \/ install.child = "failed" /\ install.errorEmitted /\ code = "-2"
    /\ install' = onClose(install, code, platform = "win32")
    /\ UNCHANGED workerVars
    /\ UNCHANGED registryVars

\* The timeout option of spawn: the runtime kills the child after INSTALL_TIMEOUT_MS.
SpawnTimeout ==
    /\ install.child = "running"
    /\ ~install.killed
    /\ install' = childKill(install)
    /\ UNCHANGED workerVars
    /\ UNCHANGED registryVars

\* The callback of setTimeout runs; the timer is never cleared.
Timeout ==
    /\ install.timer = "armed"
    /\ install' = onTimeout(install)
    /\ UNCHANGED workerVars
    /\ UNCHANGED registryVars

InstallInit ==
    /\ WorkerConstructed
    /\ RegistryConstructed
    /\ platform \in {"linux", "win32"}
    /\ install = NoInstall

InstallNext ==
    \/ \E cliId \in CliIds, spawned \in BOOLEAN : ExecuteInstall(cliId, spawned)
    \/ \E stream \in {"stdout", "stderr"} : ChildData(stream)
    \/ ChildError
    \/ \E code \in ExitCodes : ChildClose(code)
    \/ SpawnTimeout
    \/ Timeout

InstallSpec == InstallInit /\ [][InstallNext]_vars

\* ---------------------------------------------------------------- the claims
\* The task t was constructed from the conversation record conv.
TaskFrom(t, conv) == t # Null /\ tasks[t].id = conv.id /\ tasks[t].type = conv.type

\* The latest operation was a getTaskByIdRollbackBuild call that resumed from its await.
Resumed == last.op = "recoverById" /\ last.queried = <<"primary", "secondary">>

Supported(conv) == conv # NoConv /\ conv.type \in SupportedTypes

\* C1: however getTaskByIdRollbackBuild calls for one id interleave with each other and
\* with buildConversation calls for it, exactly one task is made for the id (until its
\* entry is removed or replaced) and every call that resolves with a task resolves
\* with that one.
C1_OneTaskPerRecoveredId ==
    \A id \in Ids :
        /\ Cardinality(made[id]) <= 1
        /\ (/\ last.op \in {"recoverById", "getOrCreate"}
            /\ last.id = id
            /\ last.ret # Null) => made[id] = {last.ret}

\* C1, its case: a call that found id untracked and was suspended on the file storage
\* resolves with the task another call registered in between.
C1_Witness ==
    /\ Resumed
    /\ last.tracked
    /\ last.built = {}
    /\ last.ret # Null
    /\ made[last.id] = {last.ret}

\* C2, as claimed: getOrCreate for an untracked id of a supported type constructs
\* exactly one task, and every later getOrCreate for the id constructs nothing and
\* returns that task, for as long as kill(id) has not been invoked.
C2_SameUntilKill ==
    [][last'.op = "getOrCreate" =>
        /\ (last'.id \notin TrackedIds(taskList) /\ last'.type \in SupportedTypes)
              => /\ Cardinality(last'.built) = 1
                 /\ last'.built = {last'.ret}
                 /\ Find(taskList', last'.id) = last'.ret
        /\ gocTask[last'.id] # Null
              => /\ last'.ret = gocTask[last'.id]
                 /\ last'.built = {}]_vars

\* C2, amended: ... for as long as the entry of id has neither been removed (by
\* kill(id) or by clear()) nor replaced (by addTask(id, another task)).
C2_SameUntilRemoved ==
    [][last'.op = "getOrCreate" =>
        /\ (last'.id \notin TrackedIds(taskList) /\ last'.type \in SupportedTypes)
              => /\ Cardinality(last'.built) = 1
                 /\ last'.built = {last'.ret}
                 /\ Find(taskList', last'.id) = last'.ret
        /\ (gocTask[last'.id] # Null /\ gocTask[last'.id] \in made[last'.id])
              => /\ last'.ret = gocTask[last'.id]
                 /\ last'.built = {}]_vars

\* C2, its case: a later getOrCreate returned the task an earlier one constructed.
C2_Witness ==
    /\ last.op = "getOrCreate"
    /\ last.tracked
    /\ last.ret # Null
    /\ last.ret = gocTask[last.id]
    /\ last.built = {}

\* C3: no conversation id ever has two tasks that were constructed or registered for
\* it and are still alive.
C3_OneActiveTaskPerId ==
    \A id \in Ids :
        Cardinality({ t \in Tasks : tasks[t].state \in NonTerminal /\ tasks[t].id = id }) <= 1

\* C4: kill(id) on a tracked id returns without error and leaves id untracked, also
\* when the task's kill() throws.
C4_KillAlwaysRemoves ==
    (last.op = "kill" /\ last.tracked) =>
        /\ last.err = ""
        /\ getTaskById(last.id) = Null

\* C5: clear() never throws, invokes kill() on every tracked task and leaves the
\* registry empty, also when a task's kill() throws.
C5_ClearAlwaysEmpties ==
    last.op = "clear" =>
        /\ last.err = ""
        /\ taskList = <<>>
        /\ \A t \in last.signalled : \A i \in 1..Len(taskList) : taskList[i].task # t

\* C6: getTaskByIdRollbackBuild asks the in-memory list, then the database, then the
\* file storage, each only when the ones before it missed; with id absent from the
\* list, a database hit yields a task built from the database's record and a database
\* miss with a file-storage hit yields one built from the file storage's record; the
\* task a call resolves with is the registered one.
C6_TierOrder ==
    last.op \in {"recoverById", "recoverSuspend"} =>
        /\ last.queried \in {<<>>, <<"primary">>, <<"primary", "secondary">>}
        /\ last.queried = <<>> <=> (~Resumed /\ last.tracked)
        /\ last.queried = <<>> => (last.ret # Null /\ ~last.changed /\ last.built = {})
        /\ last.queried = <<"primary">> =>
              /\ last.op = "recoverById" <=> last.db = "hit"
              /\ (last.db = "hit" /\ Supported(last.rec))
                    => (TaskFrom(last.ret, last.rec) /\ last.built = {last.ret})
        /\ Resumed =>
              /\ last.db \in DbErrors
              /\ (Supported(last.rec) /\ ~last.tracked)
                    => (TaskFrom(last.ret, last.rec) /\ last.built = {last.ret})
        /\ (last.op = "recoverById" /\ last.ret # Null) => getTaskById(last.id) = last.ret

\* C6, its case: the database missed, the file storage held the conversation, and the
\* call resolved with a task built from the file storage's record, now registered.
C6_Witness ==
    /\ Resumed
    /\ last.db = "not found"
    /\ Supported(last.rec)
    /\ ~last.tracked
    /\ TaskFrom(last.ret, last.rec)
    /\ getTaskById(last.id) = last.ret

\* C7: a call whose database query failed is rejected only if the file storage misses
\* too; if the file storage holds the conversation the call resolves with the
\* registered task, built from the file storage's record when id was still untracked.
C7_PrimaryFailureFallsBack ==
    last.db = "unavailable" =>
        /\ last.op = "recoverById" => Resumed
        /\ last.err # "" => (Resumed /\ last.rec = NoConv)
        /\ (Resumed /\ Supported(last.rec))
              => /\ last.err = ""
                 /\ last.ret # Null
                 /\ getTaskById(last.id) = last.ret
                 /\ ~last.tracked => (TaskFrom(last.ret, last.rec) /\ last.built = {last.ret})

\* C7, its case: the database was unavailable and the call resolved with a task built
\* from the file storage's record.
C7_Witness ==
    /\ Resumed
    /\ last.db = "unavailable"
    /\ Supported(last.rec)
    /\ ~last.tracked
    /\ last.err = ""
    /\ TaskFrom(last.ret, last.rec)

\* C8: a call that finds id in neither the list, the database nor the file storage is
\* rejected with 'Conversation not found', constructs nothing and leaves the registry
\* as it was, before and after its await.
C8_NotFound ==
    /\ (last.op = "recoverSuspend" /\ last.db = "not found")
          => (~last.changed /\ last.built = {} /\ last.err = "")
    /\ (Resumed /\ last.db = "not found" /\ last.rec = NoConv)
          => /\ last.err = "Conversation not found"
             /\ last.ret = Null
             /\ last.built = {}
             /\ ~last.changed

\* C8, its case: all three tiers missed and the call was rejected.
C8_Witness ==
    /\ Resumed
    /\ last.db = "not found"
    /\ last.rec = NoConv
    /\ last.err = "Conversation not found"

\* C9: getTaskByIdRollbackBuild never resolves without a task: a record of a type
\* with no variant makes it reject.
C9_NeverResolvesWithoutTask ==
    (last.op = "recoverById" /\ last.err = "") => last.ret # Null

\* C10: buildConversation for an untracked id and a type that is neither acp nor codex
\* returns no task, throws nothing, constructs nothing and leaves the registry as it was.
C10_UnsupportedYieldsNoTask ==
    (last.op = "getOrCreate" /\ ~last.tracked /\ last.type \notin SupportedTypes)
        => /\ last.ret = Null
           /\ last.err = ""
           /\ last.built = {}
           /\ ~last.changed
           /\ getTaskById(last.id) = Null

\* C10, its case: an untracked id with an unsupported type got no task.
C10_Witness ==
    /\ last.op = "getOrCreate"
    /\ ~last.tracked
    /\ last.type = "other"
    /\ last.ret = Null

\* The entries of list that belong to other ids than id, in order.
Others(list, id) == SelectSeq(list, LAMBDA e : e.id # id)

\* C11: kill(id) is idempotent: every kill(id) returns without error and leaves id
\* untracked and the entries of the other ids as they were; a kill(id) that directly
\* follows a kill(id) changes nothing, and the two together invoke the task's kill()
\* at most once.
C11_KillIdempotent ==
    [][ last'.op = "kill" =>
          /\ last'.err = ""
          /\ last'.id \notin TrackedIds(taskList')
          /\ Others(taskList', last'.id) = Others(taskList, last'.id)
          /\ (last.op = "kill" /\ last.id = last'.id) =>
                /\ taskList' = taskList
                /\ last.err = ""
                /\ Cardinality(last.signalled) + Cardinality(last'.signalled) <= 1 ]_vars

\* C12: kill(id) for an id that is not tracked raises no error, signals no task and
\* leaves the registry (the list and the task objects) unchanged.
C12_KillUntrackedIsNoOp ==
    [][ (last'.op = "kill" /\ ~last'.tracked) =>
          /\ last'.err = ""
          /\ last'.signalled = {}
          /\ taskList' = taskList
          /\ tasks' = tasks ]_vars

\* kill of an untracked id ran while another id was tracked.
C12_Witness ==
    /\ last.op = "kill"
    /\ ~last.tracked
    /\ taskList # <<>>
    /\ last.id \notin TrackedIds(taskList)

\* ---------------------------------------------------------------- the claims: ToolRegistry
\* The latest registry operation resolved an event.
Resolved == rlast.op = "resolveToolForEvent"
ResolvedMcp == Resolved /\ rlast.eventType \in McpEventTypes

\* A descriptor as a caller can render it: an id, a name, a category, a priority.
IsDescriptor(tool) ==
    /\ tool # NoTool
    /\ tool.id # EmptyString
    /\ tool.name # EmptyString
    /\ tool.category \in Categories
    /\ tool.priority >= 0

\* C13: resolveToolForEvent is total: for every event type (mapped, unmapped, MCP
\* begin and end) and every payload (absent, without invocation, with an invocation
\* that has neither method nor name) it returns a descriptor, never null.
C13_ResolveIsTotal ==
    Resolved => IsDescriptor(rlast.ret)

\* An MCP event whose invocation has neither method nor name was resolved.
C13_Witness ==
    /\ ResolvedMcp
    /\ rlast.data = Invocation(NoString, NoString)
    /\ rlast.ret.id = GenericMcpPrefix \o Name_McpTool

\* The method of the latest event's invocation: its method, or its name when it has
\* no method; the empty string when it has neither or there is no invocation.
MethodOf(data) ==
    IF ~(data.some /\ data.invocation) THEN EmptyString
    ELSE IF data.method.some THEN data.method.val
    ELSE IF data.name.some THEN data.name.val
    ELSE EmptyString

\* The registered MCP descriptors that match the method m by id suffix or by name.
McpMatches(m) ==
    { i \in 1..Len(mcpTools) : EndsWith(mcpTools[i].id, Slash \o m) \/ mcpTools[i].name = m }

\* C14: once registerMcpTool({serverName: s, name: n}) has run, an MCP begin or end
\* event whose method (or name, without method) is n resolves to a registered MCP
\* descriptor whose id ends with /n or whose name is n, never to a fallback; when
\* that registration is the only match, the descriptor's id is s/n.
C14_RegisteredMcpToolIsFound ==
    ResolvedMcp =>
        \A info \in McpToolInputs :
            LET id == info.serverName \o Slash \o info.name IN
            ( /\ \E i \in 1..Len(mcpTools) : mcpTools[i].id = id
              /\ MethodOf(rlast.data) = info.name ) =>
                /\ \E i \in 1..Len(mcpTools) : mcpTools[i] = rlast.ret
                /\ EndsWith(rlast.ret.id, Slash \o info.name) \/ rlast.ret.name = info.name
                /\ Cardinality(McpMatches(info.name)) = 1 => rlast.ret.id = id

\* An event that names the tool only in its invocation's name was resolved to the
\* single registration that matches, docs/search_docs.
C14_Witness ==
    /\ ResolvedMcp
    /\ rlast.data = Invocation(NoString, SomeString(Nm_search_docs))
    /\ Cardinality(McpMatches(Nm_search_docs)) = 1
    /\ Len(mcpTools) = 2
    /\ rlast.ret.id = Id_docs_search_docs

\* Every descriptor of the two tables.
RegisteredTools ==
    { tools[i] : i \in 1..Len(tools) } \cup { mcpTools[i] : i \in 1..Len(mcpTools) }

\* C15: an MCP begin or end event with a method m that matches no registered MCP
\* descriptor resolves to a synthesized descriptor with id generic_mcp_m and name m,
\* experimental, supporting images, charts and markdown, whose priority is higher
\* than that of every registered descriptor.
C15_UnmatchedMcpIsGeneric ==
    LET m == MethodOf(rlast.data) IN
    (ResolvedMcp /\ m # EmptyString /\ McpMatches(m) = {}) =>
        /\ rlast.ret.id = GenericMcpPrefix \o m
        /\ rlast.ret.name = m
        /\ rlast.ret.experimental
        /\ rlast.ret.capabilities.supportsImages
        /\ rlast.ret.capabilities.supportsCharts
        /\ rlast.ret.capabilities.supportsMarkdown
        /\ \A t \in RegisteredTools : rlast.ret.priority > t.priority

\* The descriptor registered under id: the builtin table is asked before the MCP table.
RegisteredAs(id) ==
    IF \E i \in 1..Len(tools) : tools[i].id = id
    THEN tools[CHOOSE i \in 1..Len(tools) : tools[i].id = id]
    ELSE IF \E i \in 1..Len(mcpTools) : mcpTools[i].id = id
    THEN mcpTools[CHOOSE i \in 1..Len(mcpTools) : mcpTools[i].id = id]
    ELSE NoTool

\* The candidates of an event type that are registered and available on the platform.
AvailableCandidates(eventType) ==
    LET ids == { eventTypeMapping[eventType][i] : i \in 1..Len(eventTypeMapping[eventType]) }
    IN  { RegisteredAs(id) : id \in { c \in ids : /\ RegisteredAs(c) # NoTool
                                                  /\ platform \in RegisteredAs(c).platforms } }

\* C16: for an event type of the static mapping table, resolveToolForEvent returns
\* the Unknown descriptor exactly when no candidate is both registered and available
\* on the current platform, and otherwise a registered candidate of the type whose
\* platform set contains the current platform.
C16_CandidateOrUnknown ==
    (Resolved /\ rlast.eventType \in MappedEventTypes) =>
        /\ rlast.ret.id = Id_unknown <=> AvailableCandidates(rlast.eventType) = {}
        /\ rlast.ret.id # Id_unknown => rlast.ret \in AvailableCandidates(rlast.eventType)
        /\ rlast.ret.id = Id_unknown => rlast.ret = getDefaultTool

\* The only candidate of the event type is registered for another platform than the
\* current one, and the event resolved to Unknown.
C16_Witness ==
    /\ Resolved
    /\ rlast.eventType = "exec_command_begin"
    /\ platform = "linux"
    /\ RegisteredAs(Id_shell_exec) # NoTool
    /\ RegisteredAs(Id_shell_exec).platforms = {"darwin"}
    /\ rlast.ret.id = Id_unknown

\* C17: among the candidates of an event type that are registered and available,
\* resolveToolForEvent returns one of minimum priority, whatever the order of the
\* candidate list.
C17_MinimumPriorityWins ==
    (Resolved /\ rlast.eventType \notin McpEventTypes
              /\ AvailableCandidates(rlast.eventType) # {}) =>
        /\ rlast.ret \in AvailableCandidates(rlast.eventType)
        /\ \A t \in AvailableCandidates(rlast.eventType) : rlast.ret.priority <= t.priority

\* Two available candidates of priorities 20 and 10, in that order in the candidate
\* list: the priority-10 one was returned.
C17_Witness ==
    /\ Resolved
    /\ rlast.eventType = "exec_command_begin"
    /\ eventTypeMapping["exec_command_begin"] = <<Id_file_operations, Id_shell_exec>>
    /\ AvailableCandidates("exec_command_begin") = {ShellExec, FileOperations}
    /\ FileOperations.priority = 20
    /\ rlast.ret = ShellExec
    /\ rlast.ret.priority = 10

\* C18: after any sequence of registerBuiltinTool and registerMcpTool calls, every
\* descriptor of the MCP table has a strictly higher priority value than every
\* descriptor of the builtin table.
C18_McpBelowBuiltin ==
    \A i \in 1..Len(mcpTools) : \A j \in 1..Len(tools) :
        mcpTools[i].priority > tools[j].priority

\* C19: after any sequence of registerBuiltinTool and registerMcpTool calls,
\* getAllTools returns no two descriptors with the same id.
C19_IdsUnique ==
    rlast.op = "getAllTools" =>
        \A i, j \in 1..Len(rlast.list) : rlast.list[i].id = rlast.list[j].id => i = j

\* The keyword groups of category inference, by category.
GroupKeywords ==
    [ g \in Categories \ {"custom"} |->
        CASE g = "search" -> {Kw_search, Kw_find, Kw_query}
          [] g = "file_ops" -> {Kw_file, Kw_read, Kw_write, Kw_edit}
          [] g = "execution" -> {Kw_exec, Kw_run, Kw_command, Kw_shell}
          [] g = "analysis" -> {Kw_chart, Kw_plot, Kw_analyze, Kw_graph}
          [] g = "communication" -> {Kw_http, Kw_api, Kw_request, Kw_fetch} ]

\* A keyword of group g is a substring of the tool's name or of its description.
InGroup(info, g) ==
    \E kw \in GroupKeywords[g] :
        \/ Includes(ToLowerCase(info.name), kw)
        \/ info.description.some /\ Includes(ToLowerCase(info.description.val), kw)

\* C20: the category of an adapted MCP tool follows the keywords found in its name or
\* in its description, for every keyword group: a tool with keywords of one group only
\* gets that group's category, a tool with no keyword in either field is Custom.
C20_CategoryFromNameOrDescription ==
    adapted.done =>
        /\ \A g \in DOMAIN GroupKeywords :
              ( /\ InGroup(adapted.info, g)
                /\ \A h \in DOMAIN GroupKeywords : h # g => ~InGroup(adapted.info, h) )
                  => adapted.ret.category = g
        /\ (\A g \in DOMAIN GroupKeywords : ~InGroup(adapted.info, g))
              => adapted.ret.category = "custom"

\* The property names of an input schema; none when there is no schema or the schema
\* has no properties.
SchemaProperties(schema) ==
    IF schema.some /\ schema.hasProperties THEN schema.properties ELSE {}

\* C21: the descriptor synthesized for an MCP tool supports streaming exactly when the
\* input schema has a property stream, images exactly when it has a property image or
\* img, and markdown and interaction for every input, also without schema.
C21_CapabilitiesFromSchema ==
    adapted.done =>
        LET props == SchemaProperties(adapted.info.inputSchema)
            caps == adapted.ret.capabilities
        IN  /\ caps.supportsStreaming <=> "stream" \in props
            /\ caps.supportsImages <=> ("image" \in props \/ "img" \in props)
            /\ caps.supportsMarkdown
            /\ caps.supportsInteraction

\* A tool whose schema has the property img and no property stream was adapted.
C21_Witness ==
    /\ adapted.done
    /\ adapted.info.inputSchema = Schema({"img"})
    /\ adapted.ret.capabilities.supportsImages
    /\ ~adapted.ret.capabilities.supportsStreaming

\* The order in which category inference tries the keyword groups.
GroupOrder == <<"search", "file_ops", "execution", "analysis", "communication">>
GroupRank(g) == CHOOSE i \in 1..Len(GroupOrder) : GroupOrder[i] = g

\* A keyword of group g is a substring of the tool's name, whatever the case.
NameInGroup(info, g) ==
    \E kw \in GroupKeywords[g] : Includes(ToLowerCase(info.name), kw)

\* The tool's description holds no keyword of any group.
DescriptionSilent(info) ==
    \A g \in DOMAIN GroupKeywords : \A kw \in GroupKeywords[g] :
        ~(info.description.some /\ Includes(ToLowerCase(info.description.val), kw))

\* C26: category inference tries the groups in the order Search, FileOps, Execution,
\* Analysis, Communication and returns the first that matches, case-insensitively:
\* the category is a group that matches, it is never a later group than the earliest
\* group the name matches, and with a description that holds no keyword it is the
\* earliest group the name matches, Custom when the name matches none.
C26_FirstMatchingGroup ==
    adapted.done =>
        LET info == adapted.info
            category == adapted.ret.category
            named == { g \in DOMAIN GroupKeywords : NameInGroup(info, g) }
        IN  /\ category # "custom" => InGroup(info, category)
            /\ \A g \in named :
                  category # "custom" /\ GroupRank(category) <= GroupRank(g)
            /\ DescriptionSilent(info) =>
                  IF named = {} THEN category = "custom"
                  ELSE /\ category \in named
                       /\ \A g \in named : GroupRank(category) <= GroupRank(g)

\* A tool named read_query, which matches FileOps and Search, was classified Search.
C26_Witness ==
    /\ adapted.done
    /\ adapted.info.name = Nm_read_query
    /\ NameInGroup(adapted.info, "file_ops")
    /\ NameInGroup(adapted.info, "search")
    /\ adapted.ret.category = "search"

\* The position of id in the order of first registration, 0 when it was never registered.
FirstRegistered(id) ==
    IF \E i \in 1..Len(mcpOrder) : mcpOrder[i] = id
    THEN CHOOSE i \in 1..Len(mcpOrder) : mcpOrder[i] = id
    ELSE 0

\* C29: when several registered MCP descriptors match the method of an invocation,
\* by id suffix or by name, resolveToolForEvent returns the one that was registered
\* first; and a resolution that follows a resolution of the same payload, with the
\* registrations unchanged, returns the same descriptor.
C29_FirstRegisteredMatchWins ==
    /\ [](ResolvedMcp =>
            LET m == MethodOf(rlast.data)
                matching == { mcpTools[i] : i \in McpMatches(m) }
            IN  (m # EmptyString /\ matching # {}) =>
                    /\ rlast.ret \in matching
                    /\ FirstRegistered(rlast.ret.id) > 0
                    /\ \A t \in matching :
                          FirstRegistered(rlast.ret.id) <= FirstRegistered(t.id))
    /\ [][ (ResolvedMcp /\ ResolvedMcp' /\ rlast'.data = rlast.data)
              => rlast'.ret = rlast.ret ]_vars

\* web/v2/plot, which matches plot by its id suffix only, was registered before
\* docs/plot, which matches by name, and an event with the method plot resolved to it.
C29_Witness ==
    /\ ResolvedMcp
    /\ MethodOf(rlast.data) = Nm_plot
    /\ Cardinality(McpMatches(Nm_plot)) = 2
    /\ FirstRegistered(Srv_web \o Slash \o Nm_v2_plot) = 1
    /\ FirstRegistered(Srv_docs \o Slash \o Nm_plot) > 1
    /\ rlast.ret.id = Srv_web \o Slash \o Nm_v2_plot
    /\ rlast.ret.name # Nm_plot

\* ---------------------------------------------------------------- C22
\* A label lookup that was made.
Labelled == adapted.done /\ adapted.label.op # "none"

C24_LookupsAreReadOnly ==
    [][ /\ last'.op \in {"getById", "listTasks"} =>
              /\ taskList' = taskList
              /\ tasks' = tasks
              /\ Created' = Created
              /\ pending' = pending
        /\ last'.op = "getById" =>
              IF last'.id \in TrackedIds(taskList)
              THEN \E i \in 1..Len(taskList) :
                      taskList[i].id = last'.id /\ taskList[i].task = last'.ret
              ELSE last'.ret = Null
        /\ last'.op = "listTasks" =>
              /\ Len(last'.list) = Len(taskList)
              /\ \A i \in 1..Len(taskList) :
                    /\ last'.list[i].id = taskList[i].id
                    /\ last'.list[i].type = tasks[taskList[i].task].type
                    /\ DOMAIN last'.list[i] = {"id", "type"} ]_vars

\* getById found the task of the second of two tracked conversations.
C24_Witness ==
    /\ last.op = "getById"
    /\ Len(taskList) = 2
    /\ taskList[1].id # taskList[2].id
    /\ last.id = taskList[2].id
    /\ last.ret = taskList[2].task

\* ---------------------------------------------------------------- C27
\* C27: in every state reached by getOrCreate, recoverById (suspended and
\* resumed in any order), addTask, kill and clear, no two entries of the
\* registry have the same conversation id.
C27_OneEntryPerId ==
    \A i, j \in 1..Len(taskList) : taskList[i].id = taskList[j].id => i = j

\* A second task was added for an id that was tracked already: the id still
\* has one entry, holding the added task.
C27_Witness ==
    /\ last.op = "addTask"
    /\ last.tracked
    /\ Cardinality({ i \in 1..Len(taskList) : taskList[i].id = last.id }) = 1
    /\ Cardinality(Created) = 2
    /\ Find(taskList, last.id) = 2

\* ---------------------------------------------------------------- C28
\* C28: kill(id) leaves every entry of another conversation in the registry,
\* in the same order and with the same task; it calls kill() on no task other
\* than the one registered for id, and no other task object changes.
C28_KillTouchesOnlyItsEntry ==
    [][last'.op = "kill" =>
          LET own == { taskList[i].task : i \in { j \in 1..Len(taskList) : taskList[j].id = last'.id } }
          IN  /\ Others(taskList', last'.id) = Others(taskList, last'.id)
              /\ last'.signalled \subseteq own
              /\ \A t \in Tasks \ own : tasks'[t] = tasks[t]]_vars

\* kill removed the entry of a tracked id while another conversation was
\* tracked: the other entry is still there and its task is alive.
C28_Witness ==
    /\ last.op = "kill"
    /\ last.tracked
    /\ last.changed
    /\ Cardinality(last.signalled) = 1
    /\ Len(taskList) = 1
    /\ taskList[1].id # last.id
    /\ tasks[taskList[1].task].state = "idle"

\* ---------------------------------------------------------------- C25
\* C25: once kill(id) or clear() has removed the entry of id, id stays
\* untracked until a getOrCreate, addTask or recoverById for id is issued after
\* the removal.  Stated for the step that follows the removal: a recoverById(id)
\* that was suspended on the file storage when the entry was removed, and that
\* resumes next, constructs no task and leaves id untracked.
C25_RemovedStaysUntracked ==
    [][ \A id \in Ids :
          ( /\ last.op \in {"kill", "clear"}
            /\ last.changed
            /\ last.op = "kill" => (last.id = id /\ last.tracked)
            /\ last.op = "clear" => \E t \in last.signalled : tasks[t].id = id
            /\ id \notin TrackedIds(taskList)
            /\ Resumed'
            /\ last'.id = id )
          => /\ last'.built = {}
             /\ id \notin TrackedIds(taskList') ]_vars

\* ---------------------------------------------------------------- C23
\* The steps of a task's lifecycle.
LifecycleSteps ==
    { <<"none", "idle">>, <<"idle", "starting">>, <<"starting", "running">>,
      <<"running", "exited">> } \cup { <<s, "killed">> : s \in NonTerminal }

\* C23: a task's state changes only along Idle -> Starting -> Running ->
\* {Exited | Killed}; a task becomes Killed only in a kill or clear that
\* signals it, and a kill() that does not throw takes a task from every
\* non-terminal state to Killed; a task becomes Exited only in a step of its
\* own, with no operation of the registry; a task that is Exited or Killed keeps
\* its state, also when kill() is called on it again.
C23_Lifecycle ==
    [][ \A t \in Tasks :
          /\ tasks'[t].state # tasks[t].state =>
                <<tasks[t].state, tasks'[t].state>> \in LifecycleSteps
          /\ (tasks'[t].state = "killed" /\ tasks[t].state # "killed") =>
                (last'.op \in {"kill", "clear"} /\ t \in last'.signalled /\ steps' # steps)
          /\ (steps' # steps /\ last'.op = "kill" /\ last'.err = "" /\ t \in last'.signalled
                /\ tasks[t].state \in NonTerminal) => tasks'[t].state = "killed"
          /\ (tasks'[t].state = "exited" /\ tasks[t].state # "exited") =>
                (tasks[t].state = "running" /\ taskList' = taskList /\ last' = last)
          /\ tasks[t].state \in Terminal => tasks'[t] = tasks[t] ]_vars

\* kill() was called on a task whose backend session had ended on its own: the
\* task is still Exited.
C23_Witness ==
    /\ last.op = "kill"
    /\ last.err = ""
    /\ last.tracked
    /\ \E t \in last.signalled : tasks[t].state = "exited"

\* ---------------------------------------------------------------- C30
\* The terminal progress statuses.
TerminalStatuses == {"success", "failed"}

\* C30: an executeInstall run emits one terminal progress status (success or
\* failed) and nothing after it: every event before the last one is
\* 'installing', and once the promise has been resolved the last event is the
\* one terminal status, whatever the order of the child's error, close and
\* timeout events.
C30_OneTerminalStatus ==
    /\ \A k \in 1..(Len(install.emitted) - 1) :
          install.emitted[k].status \notin TerminalStatuses
    /\ install.resolved # <<>> =>
          install.emitted[Len(install.emitted)].status \in TerminalStatuses

====
